---- MODULE Spec2Model ----
(***************************************************************************)
(* Name resolution and annotation binding of the ADL compiler front-end:  *)
(*   processing/resolver.rs     Resolver, ResolveCtx, the AST consumer      *)
(*   processing/annotations.rs  apply_explicit_annotations                  *)
(*                                                                         *)
(* Three specifications share the pure operators below:                    *)
(*   Spec      the Resolver driven by a client issuing add_module calls    *)
(*   SpecRef   resolve_type_ref / resolve_struct applied to drawn inputs   *)
(*   SpecBind  apply_explicit_annotations applied to drawn raw modules     *)
(*                                                                         *)
(* The AST fields that resolution clones verbatim and never reads          *)
(* (Decl.version, Field.serialized_name, Field.default, NewType.default)   *)
(* are left out of the records.                                            *)
(***************************************************************************)
EXTENDS Integers, Sequences, FiniteSets, TLC

VARIABLES
    loader,         \* Resolver.loader: which raw module load(name) yields, per module name
    modules,        \* Resolver.modules: ModuleName -> Module1
    stack,          \* the active add_module_impl calls, outermost first
    ret,            \* the value the last finished add_module call returned
    crashed,        \* the recursion exhausted the call stack (the process aborted)
    loads,          \* how many times loader.load(name) was invoked, per name
    calls,          \* number of add_module calls the client has made
    root,           \* the module name of the client's current/last add_module call
    modulesAtCall,  \* modules as it was when the client's current/last call started
    loadsAtCall,    \* loads as it was when the client's current/last call started
    allOk,          \* every finished client call returned Ok
    completed,      \* modules that completed resolution during the current/last client call
    failed,         \* modules active (failing or waiting) when the current/last call's error arose
    r_ctx,          \* SpecRef: the drawn resolution context
    r_name,         \* SpecRef: the drawn identifier
    r_pc,           \* SpecRef: "start", "typeref" or "struct"
    r_out,          \* SpecRef: the result of the applied function
    b_raw,          \* SpecBind: the drawn RawModule (module0, explicit annotations)
    b_pc,           \* SpecBind: "start", "bound" or "permuted"
    b_out,          \* SpecBind: apply_explicit_annotations(b_raw)
    b_perm,         \* SpecBind: the permutation applied to the explicit-annotation list
    b_outPerm       \* SpecBind: apply_explicit_annotations of the permuted raw module

resolverVars == <<loader, modules, stack, ret, crashed, loads, calls, root,
                  modulesAtCall, loadsAtCall, allOk, completed, failed>>
refVars == <<r_ctx, r_name, r_pc, r_out>>
bindVars == <<b_raw, b_pc, b_out, b_perm, b_outPerm>>
vars == <<resolverVars, refVars, bindVars>>

----------------------------------------------------------------------------
(* Bounds of the model *)

\* depth of the call stack at which the recursion aborts with a stack overflow
MaxDepth == 5
\* number of add_module calls the client makes on one resolver
MaxCalls == 2
\* longest explicit-annotation list drawn for the binder
MaxEA == 3

----------------------------------------------------------------------------
(* AST constructors *)

SN(m, n) == [module_name |-> m, name |-> n]

TE(sn, ps) == [type_ref |-> sn, parameters |-> ps]

NoAnn == [k \in {} |-> 0]

Ann(sn, v) == [k \in {sn} |-> v]

MkField(n, te, anns) == [name |-> n, type_expr |-> te, annotations |-> anns]

MkStruct(tps, fs) == [kind |-> "Struct", type_params |-> tps, fields |-> fs]

MkUnion(tps, fs) == [kind |-> "Union", type_params |-> tps, fields |-> fs]

MkTypeDef(tps, te) == [kind |-> "Type", type_params |-> tps, type_expr |-> te]

MkNewType(tps, te) == [kind |-> "Newtype", type_params |-> tps, type_expr |-> te]

MkDecl(n, dt, anns) == [name |-> n, type |-> dt, annotations |-> anns]

ImportModule(mn) == [kind |-> "ModuleName", module_name |-> mn, name |-> ""]

ImportScoped(sn) == [kind |-> "ScopedName", module_name |-> sn.module_name, name |-> sn.name]

\* decls is keyed by the decl's name
DeclMap(ds) == [n \in {d.name : d \in ds} |-> CHOOSE d \in ds : d.name = n]

MkModule(n, imps, ds, anns) ==
    [name |-> n, imports |-> imps, decls |-> DeclMap(ds), annotations |-> anns]

\* TypeRef variants
Primitive(p) == [tag |-> "Primitive", module_name |-> "", name |-> p]

TypeParam(n) == [tag |-> "TypeParam", module_name |-> "", name |-> n]

LocalName(n) == [tag |-> "LocalName", module_name |-> "", name |-> n]

ScopedName(sn) == [tag |-> "ScopedName", module_name |-> sn.module_name, name |-> sn.name]

\* ResolveError variants
ResolveError(k, a) == [kind |-> k, arg |-> a]

NoDeclForAnnotation == ResolveError("NoDeclForAnnotation", "")

ModuleNotFound == ResolveError("ModuleNotFound", "")

DeclNotFound == ResolveError("DeclNotFound", "")

LocalNotFound(n) == ResolveError("LocalNotFound", n)

CircularModules(n) == ResolveError("CircularModules", n)

LoadFailed == ResolveError("LoadFailed", "")

(* A Result<T>.  errs is empty for Ok(val).  Where the code collects over a   *)
(* HashMap, the entry that fails first depends on the iteration order, so    *)
(* errs holds every error the call can return.                               *)
Ok(v) == [errs |-> {}, val |-> v]

Err(e) == [errs |-> {e}, val |-> <<>>]

Errs(es) == [errs |-> es, val |-> <<>>]

IsOk(r) == r.errs = {}

----------------------------------------------------------------------------
(* Primitive table *)

PrimIdents ==
    {"Int8", "Int16", "Int32", "Int64", "Word8", "Word16", "Word32", "Word64",
     "Bool", "Void", "Float", "Double", "String", "ByteVector", "Vector",
     "StringMap", "Nullable", "TypeToken", "Json"}

\* Option<PrimitiveType>: the token is named by its identifier
prim_from_str(s) ==
    IF s \in PrimIdents THEN [some |-> TRUE, prim |-> s] ELSE [some |-> FALSE, prim |-> ""]

----------------------------------------------------------------------------
(* Collecting iterators of Results *)

RECURSIVE FirstErr(_, _)
\* the errors of the first failing element of rs at or after index i
FirstErr(rs, i) ==
    IF i > Len(rs) THEN {}
    ELSE IF ~IsOk(rs[i]) THEN rs[i].errs
    ELSE FirstErr(rs, i + 1)

\* .collect::<Result<Vec<_>>>() over a Vec: stops at the first Err
CollectVec(rs) ==
    IF FirstErr(rs, 1) = {} THEN Ok([i \in DOMAIN rs |-> rs[i].val])
    ELSE Errs(FirstErr(rs, 1))

\* .collect::<Result<HashMap<_,_>>>() over a HashMap keyed by DOMAIN rs:
\* stops at the first Err in iteration order, which may be any failing entry
CollectMap(rs) ==
    IF \A k \in DOMAIN rs : IsOk(rs[k]) THEN Ok([k \in DOMAIN rs |-> rs[k].val])
    ELSE Errs(UNION {rs[k].errs : k \in DOMAIN rs})

----------------------------------------------------------------------------
(* The AST consumer *)

RECURSIVE consume_type_expr(_)
consume_type_expr(te) ==
    {te.type_ref} \cup UNION {consume_type_expr(te.parameters[i]) : i \in DOMAIN te.parameters}

consume_annotations(anns) == DOMAIN anns

\* what consume_field hands to consume_typeref / consume_scoped_name
consume_field(f) ==
    [typerefs |-> consume_type_expr(f.type_expr), keys |-> consume_annotations(f.annotations)]

consume_fields(fs) ==
    [typerefs |-> UNION {consume_field(fs[i]).typerefs : i \in DOMAIN fs},
     keys |-> UNION {consume_field(fs[i]).keys : i \in DOMAIN fs}]

consume_decl(d) ==
    LET body == IF d.type.kind \in {"Struct", "Union"}
                THEN consume_fields(d.type.fields)
                ELSE [typerefs |-> consume_type_expr(d.type.type_expr), keys |-> {}]
    IN [typerefs |-> body.typerefs, keys |-> consume_annotations(d.annotations) \cup body.keys]

consume_module(m) ==
    [typerefs |-> UNION {consume_decl(m.decls[n]).typerefs : n \in DOMAIN m.decls},
     keys |-> consume_annotations(m.annotations)
                \cup UNION {consume_decl(m.decls[n]).keys : n \in DOMAIN m.decls}]

\* find_module_refs without the module of an Import::ScopedName
find_module_refs_no_scoped_import(module) ==
    LET c == consume_module(module)
        visited == {sn.module_name : sn \in {s \in c.typerefs \cup c.keys : s.module_name # ""}}
        imported == {module.imports[i].module_name :
                        i \in {j \in DOMAIN module.imports : module.imports[j].kind = "ModuleName"}}
    IN visited \cup imported

\* find_module_refs without the loop over module.imports
find_module_refs_visited_only(module) ==
    LET c == consume_module(module)
    IN {sn.module_name : sn \in {s \in c.typerefs \cup c.keys : s.module_name # ""}}

find_module_refs(module) ==
    LET c == consume_module(module)
        visited == {sn.module_name : sn \in {s \in c.typerefs \cup c.keys : s.module_name # ""}}
        imported == {module.imports[i].module_name : i \in DOMAIN module.imports}
    IN visited \cup imported

----------------------------------------------------------------------------
(* Imports *)

add_default_imports(module) ==
    LET di == ImportModule("sys.annotations")
    IN IF module.name # "sys.annotations"
          /\ \A i \in DOMAIN module.imports : module.imports[i] # di
       THEN [module EXCEPT !.imports = Append(@, di)]
       ELSE module

\* HashMap::insert of every pair of new into acc
Overwrite(acc, new) ==
    [k \in DOMAIN acc \cup DOMAIN new |-> IF k \in DOMAIN new THEN new[k] ELSE acc[k]]

\* what one import entry inserts into the expanded-imports map
ImportEntries(mods, imp) ==
    IF imp.kind = "ScopedName"
    THEN [k \in {imp.name} |-> SN(imp.module_name, imp.name)]
    ELSE IF imp.module_name \in DOMAIN mods
    THEN [k \in DOMAIN mods[imp.module_name].decls |-> SN(mods[imp.module_name].name, k)]
    ELSE [k \in {} |-> SN("", "")]

RECURSIVE ExpandFrom(_, _, _, _)
ExpandFrom(mods, imps, i, acc) ==
    IF i > Len(imps) THEN acc
    ELSE ExpandFrom(mods, imps, i + 1, Overwrite(acc, ImportEntries(mods, imps[i])))

get_expanded_imports(mods, module) ==
    ExpandFrom(mods, module.imports, 1, [k \in {} |-> SN("", "")])

----------------------------------------------------------------------------
(* Reference resolution.  A ResolveCtx is                                  *)
(*   [modules, module0, expanded_imports, type_params]                      *)
(* where modules stands for ctx.resolver.modules.                           *)

MkCtx(mods, module0, ei, tps) ==
    [modules |-> mods, module0 |-> module0, expanded_imports |-> ei, type_params |-> tps]

type_params_set(type_params) == {type_params[i] : i \in DOMAIN type_params}

with_type_params(ctx0, type_params) ==
    MkCtx(ctx0.modules, ctx0.module0, ctx0.expanded_imports, type_params_set(type_params))

\* resolve_type_ref with the primitive table consulted before the type parameters
resolve_type_ref_prim_first(ctx, sn0) ==
    IF sn0.module_name = ""
    THEN IF prim_from_str(sn0.name).some THEN Ok(Primitive(prim_from_str(sn0.name).prim))
         ELSE IF sn0.name \in ctx.type_params THEN Ok(TypeParam(sn0.name))
         ELSE IF sn0.name \in DOMAIN ctx.module0.decls THEN Ok(LocalName(sn0.name))
         ELSE IF sn0.name \in DOMAIN ctx.expanded_imports
              THEN Ok(ScopedName(ctx.expanded_imports[sn0.name]))
         ELSE Err(LocalNotFound(sn0.name))
    ELSE IF sn0.module_name \notin DOMAIN ctx.modules THEN Err(ModuleNotFound)
         ELSE IF sn0.name \notin DOMAIN ctx.modules[sn0.module_name].decls THEN Err(DeclNotFound)
         ELSE Ok(ScopedName(sn0))

resolve_type_ref(ctx, sn0) ==
    IF sn0.module_name = ""
    THEN IF sn0.name \in ctx.type_params THEN Ok(TypeParam(sn0.name))
         ELSE IF prim_from_str(sn0.name).some THEN Ok(Primitive(prim_from_str(sn0.name).prim))
         ELSE IF sn0.name \in DOMAIN ctx.module0.decls THEN Ok(LocalName(sn0.name))
         ELSE IF sn0.name \in DOMAIN ctx.expanded_imports
              THEN Ok(ScopedName(ctx.expanded_imports[sn0.name]))
         ELSE Err(LocalNotFound(sn0.name))
    ELSE IF sn0.module_name \notin DOMAIN ctx.modules THEN Err(ModuleNotFound)
         ELSE IF sn0.name \notin DOMAIN ctx.modules[sn0.module_name].decls THEN Err(DeclNotFound)
         ELSE Ok(ScopedName(sn0))

\* r?; Ok(Mk(r.val))
Then1(r, Mk(_)) == IF ~IsOk(r) THEN Errs(r.errs) ELSE Ok(Mk(r.val))

\* a?, then b?; Ok(Mk(a.val, b.val))
Then2(a, b, Mk(_, _)) ==
    IF ~IsOk(a) THEN Errs(a.errs)
    ELSE IF ~IsOk(b) THEN Errs(b.errs)
    ELSE Ok(Mk(a.val, b.val))

RECURSIVE resolve_type_expr(_, _)
resolve_type_expr(ctx, typeexpr0) ==
    Then2(resolve_type_ref(ctx, typeexpr0.type_ref),
          CollectVec([i \in DOMAIN typeexpr0.parameters |->
                        resolve_type_expr(ctx, typeexpr0.parameters[i])]),
          LAMBDA type_ref, parameters : TE(type_ref, parameters))

\* the closure of resolve_annotations on the resolved key tr1
ScopedNameOrErr(tr1) ==
    IF ~IsOk(tr1) THEN Errs(tr1.errs)
    ELSE IF tr1.val.tag = "ScopedName" THEN Ok(SN(tr1.val.module_name, tr1.val.name))
    ELSE Err(NoDeclForAnnotation)

\* The HashMap collected from the resolved keys ks of annotations0.  Keys of
\* annotations0 resolving to the same ScopedName collide in it; the inputs
\* drawn in this module never make two keys resolve to one, so the value
\* kept is the value of the only such key.
CollectAnnotations(annotations0, ks) ==
    Then1(CollectMap(ks),
          LAMBDA keys1 : [sn1 \in {keys1[sn0] : sn0 \in DOMAIN annotations0} |->
                            annotations0[CHOOSE sn0 \in DOMAIN annotations0 : keys1[sn0] = sn1]])

resolve_annotations(ctx, annotations0) ==
    CollectAnnotations(annotations0,
        [sn0 \in DOMAIN annotations0 |-> ScopedNameOrErr(resolve_type_ref(ctx, sn0))])

resolve_field(ctx, field0) ==
    Then2(resolve_type_expr(ctx, field0.type_expr),
          resolve_annotations(ctx, field0.annotations),
          LAMBDA te, anns : MkField(field0.name, te, anns))

resolve_fields(ctx, fields0) ==
    CollectVec([i \in DOMAIN fields0 |-> resolve_field(ctx, fields0[i])])

resolve_struct(ctx0, struct0) ==
    Then1(resolve_fields(with_type_params(ctx0, struct0.type_params), struct0.fields),
          LAMBDA fields : MkStruct(struct0.type_params, fields))

resolve_union(ctx0, union0) ==
    Then1(resolve_fields(with_type_params(ctx0, union0.type_params), union0.fields),
          LAMBDA fields : MkUnion(union0.type_params, fields))

resolve_type_alias(ctx0, type0) ==
    Then1(resolve_type_expr(with_type_params(ctx0, type0.type_params), type0.type_expr),
          LAMBDA type_expr1 : MkTypeDef(type0.type_params, type_expr1))

resolve_newtype(ctx0, newtype0) ==
    Then1(resolve_type_expr(with_type_params(ctx0, newtype0.type_params), newtype0.type_expr),
          LAMBDA type_expr1 : MkNewType(newtype0.type_params, type_expr1))

resolve_decl(ctx, decl0) ==
    Then2(CASE decl0.type.kind = "Struct" -> resolve_struct(ctx, decl0.type)
            [] decl0.type.kind = "Union" -> resolve_union(ctx, decl0.type)
            [] decl0.type.kind = "Type" -> resolve_type_alias(ctx, decl0.type)
            [] decl0.type.kind = "Newtype" -> resolve_newtype(ctx, decl0.type),
          resolve_annotations(ctx, decl0.annotations),
          LAMBDA dtype, annotations : MkDecl(decl0.name, dtype, annotations))

resolve_module(ctx, module0) ==
    Then2(CollectMap([n \in DOMAIN module0.decls |-> resolve_decl(ctx, module0.decls[n])]),
          resolve_annotations(ctx, module0.annotations),
          LAMBDA decls1, annotations1 :
              [name |-> module0.name, imports |-> module0.imports,
               decls |-> decls1, annotations |-> annotations1])

----------------------------------------------------------------------------
(* The loader.  load(name) yields Err (an I/O or parse failure), None (no    *)
(* such module) or Some(module0), the raw module with its explicit           *)
(* annotations already bound.  What is on disk is fixed when the resolver is *)
(* constructed: loader maps each module name to an index into Catalogue.     *)

LoadErr == [status |-> "Err", module |-> <<>>]

LoadNone == [status |-> "None", module |-> <<>>]

LoadSome(m) == [status |-> "Some", module |-> m]

ModNames == {"sys.annotations", "P", "Q", "R"}

Str == TE(SN("", "String"), <<>>)

\* module sys.annotations { type Doc = String; }
SysAnnotations ==
    MkModule("sys.annotations", <<>>, {MkDecl("Doc", MkTypeDef(<<>>, Str), NoAnn)}, NoAnn)

\* import Q; import R;
\* @Doc struct Box<Int32> { Int32 x; @Doc Vector<Foo> y; Bar z; }
P_Diamond ==
    MkModule("P", <<ImportModule("Q"), ImportModule("R")>>,
        {MkDecl("Box",
            MkStruct(<<"Int32">>,
                <<MkField("x", TE(SN("", "Int32"), <<>>), NoAnn),
                  MkField("y", TE(SN("", "Vector"), <<TE(SN("", "Foo"), <<>>)>>),
                          Ann(SN("", "Doc"), 1)),
                  MkField("z", TE(SN("", "Bar"), <<>>), NoAnn)>>),
            Ann(SN("", "Doc"), 2))},
        NoAnn)

\* import Q.Missing;  type A = Missing;
P_ScopedImport ==
    MkModule("P", <<ImportScoped(SN("Q", "Missing"))>>,
        {MkDecl("A", MkTypeDef(<<>>, TE(SN("", "Missing"), <<>>)), NoAnn)}, NoAnn)

\* struct S<Doc> { @Doc String f; }
P_ParamAnnotation ==
    MkModule("P", <<>>,
        {MkDecl("S", MkStruct(<<"Doc">>, <<MkField("f", Str, Ann(SN("", "Doc"), 1))>>), NoAnn)},
        NoAnn)

\* @sys.annotations.Doc module P { newtype N = Q.Foo; }
P_Qualified ==
    MkModule("P", <<>>,
        {MkDecl("N", MkNewType(<<>>, TE(SN("Q", "Foo"), <<>>)), NoAnn)},
        Ann(SN("sys.annotations", "Doc"), 1))

\* union U { Nope n; }
P_UnknownLocal ==
    MkModule("P", <<>>,
        {MkDecl("U", MkUnion(<<>>, <<MkField("n", TE(SN("", "Nope"), <<>>), NoAnn)>>), NoAnn)},
        NoAnn)

\* struct Foo { Vector<String> v; }
Q_Leaf ==
    MkModule("Q", <<>>,
        {MkDecl("Foo", MkStruct(<<>>, <<MkField("v", TE(SN("", "Vector"), <<Str>>), NoAnn)>>),
                NoAnn)},
        NoAnn)

\* import R;  type Foo = Bar;
Q_ImportsR ==
    MkModule("Q", <<ImportModule("R")>>,
        {MkDecl("Foo", MkTypeDef(<<>>, TE(SN("", "Bar"), <<>>)), NoAnn)}, NoAnn)

\* import P;  struct Foo {}
Q_ImportsP ==
    MkModule("Q", <<ImportModule("P")>>, {MkDecl("Foo", MkStruct(<<>>, <<>>), NoAnn)}, NoAnn)

\* newtype Other = Int32;
Q_NoFoo ==
    MkModule("Q", <<>>,
        {MkDecl("Other", MkNewType(<<>>, TE(SN("", "Int32"), <<>>)), NoAnn)}, NoAnn)

\* struct Bar { Bool b; }
R_Leaf ==
    MkModule("R", <<>>,
        {MkDecl("Bar", MkStruct(<<>>, <<MkField("b", TE(SN("", "Bool"), <<>>), NoAnn)>>), NoAnn)},
        NoAnn)

\* import R;  struct Bar {}
R_ImportsSelf ==
    MkModule("R", <<ImportModule("R")>>, {MkDecl("Bar", MkStruct(<<>>, <<>>), NoAnn)}, NoAnn)

\* union Bar { @Bar Void v; }
R_LocalAnnotation ==
    MkModule("R", <<>>,
        {MkDecl("Bar",
            MkUnion(<<>>, <<MkField("v", TE(SN("", "Void"), <<>>), Ann(SN("", "Bar"), 1))>>),
            NoAnn)},
        NoAnn)

Catalogue ==
    [n \in ModNames |->
        CASE n = "sys.annotations" -> <<LoadSome(SysAnnotations), LoadNone>>
          [] n = "P" -> <<LoadSome(P_Diamond), LoadSome(P_ScopedImport),
                          LoadSome(P_ParamAnnotation), LoadSome(P_Qualified),
                          LoadSome(P_UnknownLocal), LoadErr>>
          [] n = "Q" -> <<LoadSome(Q_Leaf), LoadSome(Q_ImportsR), LoadSome(Q_ImportsP),
                          LoadSome(Q_NoFoo), LoadNone>>
          [] n = "R" -> <<LoadSome(R_Leaf), LoadSome(R_ImportsSelf),
                          LoadSome(R_LocalAnnotation)>>]

Loaders == {ld \in [ModNames -> 1..6] : \A n \in ModNames : ld[n] \in DOMAIN Catalogue[n]}

\* self.loader.load(module_name)
Load(ld, name) == Catalogue[name][ld[name]]

----------------------------------------------------------------------------
(* The Resolver.  A frame of stack is one active add_module_impl call:      *)
(*   name         its module_name                                            *)
(*   pc           "enter": not yet run; "deps": in the loop over module_refs; *)
(*                "wait": inside the add_module call of one module_ref        *)
(*   refs         the module_refs the loop has not visited yet               *)
(*   in_progress  the HashSet the call was handed                            *)
(* The frame's local module0 is add_default_imports of what the loader       *)
(* yielded for name, which the loader fixes.                                 *)

NoRet == [done |-> FALSE, errs |-> {}]

RetOk == [done |-> TRUE, errs |-> {}]

RetErr(e) == [done |-> TRUE, errs |-> {e}]

ReturnedOk(r) == r.done /\ r.errs = {}

ReturnedErr(r) == r.done /\ r.errs # {}

Top == stack[Len(stack)]

Names(stk) == {stk[i].name : i \in DOMAIN stk}

Module0Of(name) == add_default_imports(Load(loader, name).module)

\* add_module: a fresh in_progress set, handed to add_module_impl
add_module(module_name) ==
    [name |-> module_name, pc |-> "enter", refs |-> {}, in_progress |-> {}]

\* the lookup that never finds the module
contains_key_never(name) == FALSE

\* self.modules.contains_key(module_name)
contains_key(name) == name \in DOMAIN modules

\* the top call returns r to its caller
Return(r) ==
    /\ stack' = SubSeq(stack, 1, Len(stack) - 1)
    /\ ret' = r
    /\ allOk' = IF Len(stack) = 1 THEN allOk /\ ReturnedOk(r) ELSE allOk
    /\ failed' = IF ReturnedErr(r) /\ ~ReturnedErr(ret) THEN Names(stack) ELSE failed

InitResolver ==
    /\ loader \in Loaders
    /\ modules = [n \in {} |-> <<>>]
    /\ stack = <<>>
    /\ ret = NoRet
    /\ crashed = FALSE
    /\ loads = [n \in ModNames |-> 0]
    /\ calls = 0
    /\ root = ""
    /\ modulesAtCall = [n \in {} |-> <<>>]
    /\ loadsAtCall = [n \in ModNames |-> 0]
    /\ allOk = TRUE
    /\ completed = {}
    /\ failed = {}

\* the client calls resolver.add_module(x)
AddModule(x) ==
    /\ stack = <<>>
    /\ ~crashed
    /\ calls < MaxCalls
    /\ stack' = <<add_module(x)>>
    /\ ret' = NoRet
    /\ calls' = calls + 1
    /\ root' = x
    /\ modulesAtCall' = modules
    /\ loadsAtCall' = loads
    /\ completed' = {}
    /\ failed' = {}
    /\ UNCHANGED <<loader, modules, crashed, loads, allOk, refVars, bindVars>>

\* add_module_impl from its entry to the loop over module_refs
Enter ==
    /\ stack # <<>>
    /\ ~crashed
    /\ Top.pc = "enter"
    /\ IF contains_key(Top.name)
       THEN Return(RetOk) /\ UNCHANGED loads
       ELSE IF Top.name \in Top.in_progress
       THEN Return(RetErr(CircularModules(Top.name))) /\ UNCHANGED loads
       ELSE /\ loads' = [loads EXCEPT ![Top.name] = @ + 1]
            /\ LET l == Load(loader, Top.name)
               IN CASE l.status = "Err" -> Return(RetErr(LoadFailed))
                    [] l.status = "None" -> Return(RetErr(ModuleNotFound))
                    [] l.status = "Some" ->
                         /\ stack' = [stack EXCEPT ![Len(stack)] =
                                        [name |-> Top.name, pc |-> "deps",
                                         refs |-> find_module_refs(add_default_imports(l.module)),
                                         in_progress |-> Top.in_progress \cup {Top.name}]]
                         /\ UNCHANGED <<ret, allOk, failed>>
    /\ UNCHANGED <<loader, modules, crashed, calls, root, modulesAtCall, loadsAtCall,
                   completed, refVars, bindVars>>

\* the loop visits the next module_ref (HashSet order) and calls add_module on it
CallDep ==
    /\ stack # <<>>
    /\ ~crashed
    /\ Top.pc = "deps"
    /\ Len(stack) < MaxDepth
    /\ \E m \in Top.refs :
         stack' = Append([stack EXCEPT ![Len(stack)] = [@ EXCEPT !.pc = "wait", !.refs = @ \ {m}]],
                         add_module(m))
    /\ UNCHANGED <<loader, modules, ret, crashed, loads, calls, root,
                   modulesAtCall, loadsAtCall, allOk, completed, failed, refVars, bindVars>>

\* the recursion is deeper than the call stack allows: the process aborts
StackOverflow ==
    /\ stack # <<>>
    /\ ~crashed
    /\ Top.pc = "deps"
    /\ Top.refs # {}
    /\ Len(stack) >= MaxDepth
    /\ crashed' = TRUE
    /\ UNCHANGED <<loader, modules, stack, ret, loads, calls, root,
                   modulesAtCall, loadsAtCall, allOk, completed, failed, refVars, bindVars>>

\* self.add_module(m)? has returned: go on with the loop, or return its error
AfterDep ==
    /\ stack # <<>>
    /\ ~crashed
    /\ Top.pc = "wait"
    /\ ret.done
    /\ IF ReturnedOk(ret)
       THEN /\ stack' = [stack EXCEPT ![Len(stack)] = [@ EXCEPT !.pc = "deps"]]
            /\ ret' = NoRet
            /\ UNCHANGED <<allOk, failed>>
       ELSE Return(ret)
    /\ UNCHANGED <<loader, modules, crashed, loads, calls, root,
                   modulesAtCall, loadsAtCall, completed, refVars, bindVars>>

\* the end of add_module_impl with the insert moved before the check of module1
PublishUnchecked(module1) ==
    /\ modules' = [n \in DOMAIN modules \cup {Top.name} |->
                     IF n = Top.name THEN module1.val ELSE modules[n]]
    /\ IF IsOk(module1)
       THEN completed' = completed \cup {Top.name} /\ Return(RetOk)
       ELSE (\E e \in module1.errs : Return(RetErr(e))) /\ UNCHANGED completed

\* the end of add_module_impl, given what resolve_module returned
Publish(module1) ==
    IF IsOk(module1)
    THEN /\ modules' = [n \in DOMAIN modules \cup {Top.name} |->
                          IF n = Top.name THEN module1.val ELSE modules[n]]
         /\ completed' = completed \cup {Top.name}
         /\ Return(RetOk)
    ELSE /\ \E e \in module1.errs : Return(RetErr(e))
         /\ UNCHANGED <<modules, completed>>

\* the ResolveCtx add_module_impl builds for module0
NewCtx(module0) == MkCtx(modules, module0, get_expanded_imports(modules, module0), {})

\* add_module_impl after the loop: expand the imports, resolve, publish
Resolve ==
    /\ stack # <<>>
    /\ ~crashed
    /\ Top.pc = "deps"
    /\ Top.refs = {}
    /\ Publish(resolve_module(NewCtx(Module0Of(Top.name)), Module0Of(Top.name)))
    /\ UNCHANGED <<loader, crashed, loads, calls, root, modulesAtCall, loadsAtCall,
                   refVars, bindVars>>

Next ==
    \/ \E x \in ModNames : AddModule(x)
    \/ Enter
    \/ CallDep
    \/ StackOverflow
    \/ AfterDep
    \/ Resolve

IdleRef == r_ctx = <<>> /\ r_name = "" /\ r_pc = "idle" /\ r_out = <<>>

IdleBind == b_raw = <<>> /\ b_pc = "idle" /\ b_out = <<>> /\ b_perm = <<>> /\ b_outPerm = <<>>

Init == InitResolver /\ IdleRef /\ IdleBind

Spec == Init /\ [][Next]_vars

----------------------------------------------------------------------------
(* SpecRef: reference resolution applied to drawn inputs.  The context is a *)
(* module declaring the drawn local names, an expanded-imports map with the  *)
(* drawn keys, and an enclosing decl with the drawn type parameters.         *)

RefNames == {"Int32", "Doc", "Foo"}

RECURSIVE ListOf(_)
\* a list of the distinct idents of S
ListOf(S) ==
    IF S = {} THEN <<>>
    ELSE LET x == CHOOSE y \in S : TRUE IN <<x>> \o ListOf(S \ {x})

RefModule(locals) ==
    MkModule("M", <<>>, {MkDecl(n, MkTypeDef(<<>>, Str), NoAnn) : n \in locals}, NoAnn)

InitRef ==
    /\ r_name \in RefNames
    /\ \E tps \in SUBSET RefNames, locals \in SUBSET RefNames, imps \in SUBSET RefNames :
         r_ctx = [ctx0 |-> MkCtx([n \in {} |-> <<>>], RefModule(locals),
                                 [k \in imps |-> SN("lib", k)], {}),
                  type_params |-> ListOf(tps)]
    /\ r_pc = "start"
    /\ r_out = <<>>

\* resolve_type_ref of the unqualified name, in the scope of the enclosing decl
ApplyResolveTypeRef ==
    /\ r_pc = "start"
    /\ r_out' = resolve_type_ref(with_type_params(r_ctx.ctx0, r_ctx.type_params), SN("", r_name))
    /\ r_pc' = "typeref"
    /\ UNCHANGED <<r_ctx, r_name, resolverVars, bindVars>>

\* resolve_struct of  struct Box<type_params> { r_name x; }
ApplyResolveField ==
    /\ r_pc = "start"
    /\ r_out' = resolve_struct(r_ctx.ctx0,
                    MkStruct(r_ctx.type_params,
                             <<MkField("x", TE(SN("", r_name), <<>>), NoAnn)>>))
    /\ r_pc' = "field"
    /\ UNCHANGED <<r_ctx, r_name, resolverVars, bindVars>>

\* resolve_struct of  struct S<type_params> { @r_name String f; }
ApplyResolveAnnotated ==
    /\ r_pc = "start"
    /\ r_out' = resolve_struct(r_ctx.ctx0,
                    MkStruct(r_ctx.type_params,
                             <<MkField("f", Str, Ann(SN("", r_name), 1))>>))
    /\ r_pc' = "annotated"
    /\ UNCHANGED <<r_ctx, r_name, resolverVars, bindVars>>

NextRef ==
    \/ ApplyResolveTypeRef
    \/ ApplyResolveField
    \/ ApplyResolveAnnotated

IdleResolver ==
    /\ loader = <<>> /\ modules = <<>> /\ stack = <<>> /\ ret = NoRet /\ crashed = FALSE
    /\ loads = <<>> /\ calls = 0 /\ root = "" /\ modulesAtCall = <<>> /\ loadsAtCall = <<>>
    /\ allOk = TRUE /\ completed = {} /\ failed = {}

InitSpecRef == IdleResolver /\ InitRef /\ IdleBind

SpecRef == InitSpecRef /\ [][NextRef]_vars

----------------------------------------------------------------------------
(* The annotation binder (annotations.rs) *)

\* ExplicitAnnotationRef variants
RefModuleAnn == [kind |-> "Module", decl |-> "", field |-> ""]

RefDecl(d) == [kind |-> "Decl", decl |-> d, field |-> ""]

RefField(d, f) == [kind |-> "Field", decl |-> d, field |-> f]

ExplicitAnnotation(refr, sn, v) == [refr |-> refr, scoped_name |-> sn, value |-> v]

\* fields.iter_mut().find(|f| f.name.value == *field_name): the first match
FindField(fields, field_name) ==
    LET hits == {i \in DOMAIN fields : fields[i].name = field_name}
    IN IF hits = {} THEN 0 ELSE CHOOSE i \in hits : \A j \in hits : i <= j

\* Option<&mut Annotations>: some, and where the annotations are in module0
\* (the decl, and the index of the field in its fields)
NoneRef == [some |-> FALSE, kind |-> "", decl |-> "", index |-> 0]

SomeRef(kind, d, i) == [some |-> TRUE, kind |-> kind, decl |-> d, index |-> i]

find_annotations_ref(ear, module0) ==
    CASE ear.kind = "Module" -> SomeRef("Module", "", 0)
      [] ear.kind = "Decl" ->
           IF ear.decl \in DOMAIN module0.decls THEN SomeRef("Decl", ear.decl, 0) ELSE NoneRef
      [] ear.kind = "Field" ->
           IF ear.decl \notin DOMAIN module0.decls THEN NoneRef
           ELSE IF module0.decls[ear.decl].type.kind \notin {"Struct", "Union"} THEN NoneRef
           ELSE IF FindField(module0.decls[ear.decl].type.fields, ear.field) = 0 THEN NoneRef
           ELSE SomeRef("Field", ear.decl,
                        FindField(module0.decls[ear.decl].type.fields, ear.field))

\* an insert that keeps the value of a key already present
insert_if_absent(annotations, k, v) ==
    IF k \in DOMAIN annotations THEN annotations ELSE Overwrite(annotations, Ann(k, v))

\* aref.0.insert(ea.scoped_name, ea.value)
insert(annotations, k, v) == Overwrite(annotations, Ann(k, v))

\* module0 after the insert through the reference aref
InsertAt(module0, aref, k, v) ==
    CASE aref.kind = "Module" ->
           [module0 EXCEPT !.annotations = insert(@, k, v)]
      [] aref.kind = "Decl" ->
           [module0 EXCEPT !.decls[aref.decl].annotations = insert(@, k, v)]
      [] aref.kind = "Field" ->
           [module0 EXCEPT !.decls[aref.decl].type.fields[aref.index].annotations =
                              insert(@, k, v)]

\* one iteration of the loop over explicit_annotations; acc is (module0, unresolved)
BindOne(acc, ea) ==
    IF find_annotations_ref(ea.refr, acc.module0).some
    THEN [module0 |-> InsertAt(acc.module0, find_annotations_ref(ea.refr, acc.module0),
                               ea.scoped_name, ea.value),
          unresolved |-> acc.unresolved]
    ELSE [module0 |-> acc.module0, unresolved |-> Append(acc.unresolved, ea.refr)]

RECURSIVE BindFrom(_, _, _)
BindFrom(acc, eas, i) ==
    IF i > Len(eas) THEN acc ELSE BindFrom(BindOne(acc, eas[i]), eas, i + 1)

\* Result<Module0, UnresolvedExplicitAnnotations>
BindResult(acc) ==
    IF acc.unresolved = <<>>
    THEN [ok |-> TRUE, module0 |-> acc.module0, unresolved |-> <<>>]
    ELSE [ok |-> FALSE, module0 |-> <<>>, unresolved |-> acc.unresolved]

\* apply_explicit_annotations that gives up at the first unresolved reference
apply_explicit_annotations_first_only(raw_module) ==
    LET acc == BindFrom([module0 |-> raw_module.module0, unresolved |-> <<>>],
                        raw_module.explicit_annotations, 1)
    IN IF acc.unresolved = <<>> THEN BindResult(acc)
       ELSE [ok |-> FALSE, module0 |-> <<>>, unresolved |-> <<acc.unresolved[1]>>]

apply_explicit_annotations(raw_module) ==
    BindResult(BindFrom([module0 |-> raw_module.module0, unresolved |-> <<>>],
                        raw_module.explicit_annotations, 1))

----------------------------------------------------------------------------
(* SpecBind: the binder applied to drawn raw modules *)

Word64 == TE(SN("", "Word64"), <<>>)

\* @A 1 module X { @B 2 struct Y { @C 3 Word64 z; };
\*                 union V { Word64 w; };  type T = String;  newtype N = String; }
BindModule ==
    MkModule("X", <<>>,
        {MkDecl("Y", MkStruct(<<>>, <<MkField("z", Word64, Ann(SN("", "C"), 3))>>),
                Ann(SN("", "B"), 2)),
         MkDecl("V", MkUnion(<<>>, <<MkField("w", Word64, NoAnn)>>), NoAnn),
         MkDecl("T", MkTypeDef(<<>>, Str), NoAnn),
         MkDecl("N", MkNewType(<<>>, Str), NoAnn)},
        Ann(SN("", "A"), 1))

\* the explicit annotations a raw module's list is drawn from
ExplicitAnnotations ==
    {ExplicitAnnotation(RefModuleAnn, SN("", "G"), 8),
     ExplicitAnnotation(RefModuleAnn, SN("", "G"), 9),
     ExplicitAnnotation(RefModuleAnn, SN("", "A"), 7),
     ExplicitAnnotation(RefDecl("Y"), SN("", "G"), 8),
     ExplicitAnnotation(RefDecl("Y"), SN("", "B"), 7),
     ExplicitAnnotation(RefField("Y", "z"), SN("", "G"), 8),
     ExplicitAnnotation(RefField("Y", "z"), SN("", "G"), 9),
     ExplicitAnnotation(RefField("V", "w"), SN("", "G"), 8),
     ExplicitAnnotation(RefDecl("A"), SN("", "F"), 7),
     ExplicitAnnotation(RefField("A", "z"), SN("", "G"), 8),
     ExplicitAnnotation(RefField("Y", "q"), SN("", "G"), 9),
     ExplicitAnnotation(RefField("T", "z"), SN("", "G"), 8),
     ExplicitAnnotation(RefField("N", "z"), SN("", "G"), 8)}

Lists(S, n) == UNION {[1..k -> S] : k \in 0..n}

Perms(n) == {p \in [1..n -> 1..n] : \A i, j \in 1..n : p[i] = p[j] => i = j}

Permute(l, p) == [i \in DOMAIN l |-> l[p[i]]]

InitBind ==
    /\ \E eas \in Lists(ExplicitAnnotations, MaxEA) :
         b_raw = [module0 |-> BindModule, explicit_annotations |-> eas]
    /\ b_pc = "start"
    /\ b_out = <<>>
    /\ b_perm = <<>>
    /\ b_outPerm = <<>>

\* apply_explicit_annotations(raw_module)
Bind ==
    /\ b_pc = "start"
    /\ b_out' = apply_explicit_annotations(b_raw)
    /\ b_pc' = "bound"
    /\ UNCHANGED <<b_raw, b_perm, b_outPerm, resolverVars, refVars>>

\* apply_explicit_annotations of the same module with its list permuted
BindPermuted ==
    /\ b_pc = "bound"
    /\ \E p \in Perms(Len(b_raw.explicit_annotations)) :
         /\ b_perm' = p
         /\ b_outPerm' = apply_explicit_annotations(
                            [b_raw EXCEPT !.explicit_annotations = Permute(@, p)])
    /\ b_pc' = "permuted"
    /\ UNCHANGED <<b_raw, b_out, resolverVars, refVars>>

NextBind ==
    \/ Bind
    \/ BindPermuted

InitSpecBind == IdleResolver /\ IdleRef /\ InitBind

SpecBind == InitSpecBind /\ [][NextBind]_vars

----------------------------------------------------------------------------
(* Properties of the Resolver (Spec) *)

Idle == stack = <<>>

\* the modules a module references: the target of every import clause, the
\* injected sys.annotations, and every non-empty module_name of a type
\* reference or annotation key
ReferencedModules(m) ==
    {m.imports[i].module_name : i \in DOMAIN m.imports}
      \cup (IF m.name # "sys.annotations" THEN {"sys.annotations"} ELSE {})
      \cup {s.module_name :
              s \in {t \in consume_module(m).typerefs \cup consume_module(m).keys :
                       t.module_name # ""}}

\* the modules referenced by what the loader holds under name n
ReferencedByName(n) ==
    IF Load(loader, n).status = "Some" THEN ReferencedModules(Load(loader, n).module) ELSE {}

RECURSIVE Closure(_)
\* the least set containing S and closed under ReferencedByName
Closure(S) ==
    IF UNION {ReferencedByName(n) : n \in S} \subseteq S THEN S
    ELSE Closure(S \cup UNION {ReferencedByName(n) : n \in S})

\* the ScopedName type references and the annotation keys of a resolved module
ScopedRefs(m1) ==
    {t \in consume_module(m1).typerefs : t.tag = "ScopedName"} \cup consume_module(m1).keys

\* C1: a module that is in progress is never entered a second time: the
\* re-entering add_module call returns CircularModules instead of loading
\* the module again, and the call returns (the recursion does not run away).
C1_CycleDetected ==
    /\ ~crashed
    /\ \A i, j \in DOMAIN stack :
         (i < j /\ stack[j].pc # "enter") => stack[i].name # stack[j].name

\* C2: every ScopedName type reference and every annotation key of a module
\* in modules names a decl that exists in a module in modules.
C2_ReferencesExist ==
    \A n \in DOMAIN modules : \A s \in ScopedRefs(modules[n]) :
        /\ s.module_name \in DOMAIN modules
        /\ s.name \in DOMAIN modules[s.module_name].decls

\* C5: when add_module(root), called on a resolver with no modules, has
\* returned Ok, the keys of modules are exactly the closure of {root} under
\* "module referenced by".
C5_ClosurePublished ==
    (Idle /\ ReturnedOk(ret) /\ DOMAIN modulesAtCall = {}) => DOMAIN modules = Closure({root})

C5_Witness ==
    /\ Idle /\ ReturnedOk(ret) /\ DOMAIN modulesAtCall = {}
    /\ root = "P" /\ Load(loader, "P").module = P_Qualified
    /\ DOMAIN modules = {"P", "Q", "R", "sys.annotations"}

\* C6: no entry of modules is ever removed or replaced, and when add_module
\* has returned an error, the module that failed and the modules waiting on
\* it are absent, and modules holds exactly what it held before the call
\* plus the modules that completed resolution during it.
C6_FailureAtomic ==
    /\ \A n \in DOMAIN modulesAtCall : n \in DOMAIN modules /\ modules[n] = modulesAtCall[n]
    /\ (Idle /\ ReturnedErr(ret)) =>
         /\ root \in failed
         /\ failed \cap DOMAIN modules = {}
         /\ DOMAIN modules = DOMAIN modulesAtCall \cup completed

C6_Witness ==
    /\ Idle /\ ReturnedErr(ret)
    /\ Cardinality(failed) >= 2
    /\ completed # {}
    /\ DOMAIN modulesAtCall # {}

\* C8: after any sequence of add_module calls that all returned Ok, each
\* module name was loaded at most once; and a call for a module already in
\* modules returns Ok without loading anything or changing modules.
C8_LoadOnce ==
    /\ (Idle /\ allOk) => \A n \in ModNames : loads[n] <= 1
    /\ (Idle /\ ret.done /\ root \in DOMAIN modulesAtCall) =>
         ReturnedOk(ret) /\ loads = loadsAtCall /\ modules = modulesAtCall

C8_Witness ==
    /\ Idle /\ allOk /\ calls = 2
    /\ root \in DOMAIN modulesAtCall
    /\ Load(loader, "P").module = P_Diamond /\ Load(loader, "Q").module = Q_ImportsR
    /\ "P" \in DOMAIN modules

\* C10: every module reference a call's loop has gone past (other than the
\* one whose add_module call is still running) is in modules, so all of them
\* are when the expanded imports are computed and the decls are resolved; and
\* modules is closed under module references.
C10_DependencyFirst ==
    /\ \A i \in DOMAIN stack :
         CASE i < Len(stack) ->
                (ReferencedByName(stack[i].name) \ stack[i].refs) \ {stack[i + 1].name}
                    \subseteq DOMAIN modules
           [] i = Len(stack) /\ (stack[i].pc = "deps" \/ (stack[i].pc = "wait" /\ ReturnedOk(ret))) ->
                (ReferencedByName(stack[i].name) \ stack[i].refs) \subseteq DOMAIN modules
           [] OTHER -> TRUE
    /\ \A n \in DOMAIN modules : ReferencedModules(modules[n]) \subseteq DOMAIN modules

C10_Witness ==
    /\ stack # <<>> /\ Top.pc = "deps" /\ Top.refs = {}
    /\ Top.name = "P" /\ Load(loader, "P").module = P_Diamond
    /\ {"Q", "R", "sys.annotations"} \subseteq DOMAIN modules

----------------------------------------------------------------------------
(* Properties of reference resolution (SpecRef) *)

\* the classification of the unqualified r_name under the type-parameter scope tps
Classified(tps) ==
    IF r_name \in tps THEN Ok(TypeParam(r_name))
    ELSE IF r_name \in PrimIdents THEN Ok(Primitive(r_name))
    ELSE IF r_name \in DOMAIN r_ctx.ctx0.module0.decls THEN Ok(LocalName(r_name))
    ELSE IF r_name \in DOMAIN r_ctx.ctx0.expanded_imports
         THEN Ok(ScopedName(r_ctx.ctx0.expanded_imports[r_name]))
    ELSE Err(LocalNotFound(r_name))

\* C3: an unqualified name resolves to TypeParam if it is a type parameter in
\* scope, else Primitive if it is a primitive ident, else LocalName if the
\* module declares it, else the imported ScopedName, else LocalNotFound; the
\* type of a field of a struct is resolved in the scope of the struct's
\* type parameters.
C3_ShadowingOrder ==
    /\ r_pc = "typeref" => r_out = Classified(type_params_set(r_ctx.type_params))
    /\ r_pc = "field" =>
         /\ r_out.errs = Classified(type_params_set(r_ctx.type_params)).errs
         /\ IsOk(r_out) =>
              r_out.val.fields[1].type_expr.type_ref
                = Classified(type_params_set(r_ctx.type_params)).val

C3_Witness ==
    /\ r_pc = "field"
    /\ r_name = "Int32"
    /\ r_ctx.type_params = <<"Int32">>
    /\ IsOk(r_out)
    /\ r_out.val.fields[1].type_expr.type_ref = TypeParam("Int32")

\* C7: the key of a field annotation is classified as if the type-parameter
\* scope were empty: a key that so classifies as an imported ScopedName
\* resolves to it, also when its name is a type parameter of the enclosing
\* struct, and a key that so classifies as a Primitive or a LocalName fails
\* with NoDeclForAnnotation.
C7_AnnotationKeysIgnoreTypeParams ==
    (r_pc = "annotated" /\ IsOk(Classified({}))) =>
        IF Classified({}).val.tag # "ScopedName" THEN r_out.errs = {NoDeclForAnnotation}
        ELSE /\ IsOk(r_out)
             /\ DOMAIN r_out.val.fields[1].annotations
                  = {SN(Classified({}).val.module_name, Classified({}).val.name)}

----------------------------------------------------------------------------
(* Properties of the annotation binder (SpecBind) *)

\* whether the target of an explicit annotation exists in the raw module
TargetExists(refr) ==
    CASE refr.kind = "Module" -> TRUE
      [] refr.kind = "Decl" -> refr.decl \in DOMAIN b_raw.module0.decls
      [] refr.kind = "Field" ->
           /\ refr.decl \in DOMAIN b_raw.module0.decls
           /\ b_raw.module0.decls[refr.decl].type.kind \in {"Struct", "Union"}
           /\ \E i \in DOMAIN b_raw.module0.decls[refr.decl].type.fields :
                b_raw.module0.decls[refr.decl].type.fields[i].name = refr.field

Missing(ea) == ~TargetExists(ea.refr)

\* the refr of every record of eas whose target is missing, in list order
MissingRefs(eas) ==
    [i \in DOMAIN SelectSeq(eas, Missing) |-> SelectSeq(eas, Missing)[i].refr]

\* C4: the binder returns Ok iff the target of every explicit annotation
\* exists, and otherwise an error listing the refr of each record whose
\* target is missing, one entry per such record.
C4_CollectsEveryFailure ==
    b_pc # "start" =>
        /\ b_out.ok <=> \A i \in DOMAIN b_raw.explicit_annotations :
                           TargetExists(b_raw.explicit_annotations[i].refr)
        /\ ~b_out.ok => b_out.unresolved = MissingRefs(b_raw.explicit_annotations)

C4_Witness ==
    /\ b_pc = "bound"
    /\ ~b_out.ok
    /\ Len(b_raw.explicit_annotations) = 3
    /\ b_raw.explicit_annotations[2].refr = RefModuleAnn
    /\ b_out.unresolved = <<RefField("T", "z"), RefField("Y", "q")>>

\* the annotations of the node refr names in the bound module m
AnnotationsAt(m, refr) ==
    CASE refr.kind = "Module" -> m.annotations
      [] refr.kind = "Decl" -> m.decls[refr.decl].annotations
      [] refr.kind = "Field" ->
           m.decls[refr.decl].type.fields[FindField(m.decls[refr.decl].type.fields,
                                                    refr.field)].annotations

SameKey(a, b) == a.refr = b.refr /\ a.scoped_name = b.scoped_name

NoDuplicates(eas) == \A i, j \in DOMAIN eas : SameKey(eas[i], eas[j]) => i = j

Count(l, x) == Cardinality({i \in DOMAIN l : l[i] = x})

SameOutcome(a, b) ==
    /\ a.ok = b.ok
    /\ a.ok => a.module0 = b.module0
    /\ ~a.ok => \A i \in DOMAIN a.unresolved \cup DOMAIN b.unresolved :
                    /\ i \in DOMAIN a.unresolved =>
                         Count(a.unresolved, a.unresolved[i]) = Count(b.unresolved, a.unresolved[i])
                    /\ i \in DOMAIN b.unresolved =>
                         Count(a.unresolved, b.unresolved[i]) = Count(b.unresolved, b.unresolved[i])

\* every key of every annotations map of the bound module holds the value
\* of the last explicit record for it, or its inline value if there is none
LastWriteWins(eas, out) ==
    /\ \A i \in DOMAIN eas :
         (\A j \in DOMAIN eas : j > i => ~SameKey(eas[i], eas[j])) =>
            /\ eas[i].scoped_name \in DOMAIN AnnotationsAt(out.module0, eas[i].refr)
            /\ AnnotationsAt(out.module0, eas[i].refr)[eas[i].scoped_name] = eas[i].value
    /\ \A refr \in {RefModuleAnn, RefDecl("Y"), RefField("Y", "z")} :
         \A k \in DOMAIN AnnotationsAt(b_raw.module0, refr) :
            (\A i \in DOMAIN eas : ~(eas[i].refr = refr /\ eas[i].scoped_name = k)) =>
               /\ k \in DOMAIN AnnotationsAt(out.module0, refr)
               /\ AnnotationsAt(out.module0, refr)[k] = AnnotationsAt(b_raw.module0, refr)[k]

\* C9: permuting an explicit-annotation list in which no two records share
\* target and key leaves the outcome unchanged (the same bound module, or the
\* same multiset of unresolved references); in any list the last record for
\* a target and key is the one stored, also over an inline annotation.
C9_OrderIndependent ==
    /\ (b_pc = "permuted" /\ NoDuplicates(b_raw.explicit_annotations)) =>
          SameOutcome(b_out, b_outPerm)
    /\ (b_pc # "start" /\ b_out.ok) => LastWriteWins(b_raw.explicit_annotations, b_out)
    /\ (b_pc = "permuted" /\ b_outPerm.ok) =>
          LastWriteWins(Permute(b_raw.explicit_annotations, b_perm), b_outPerm)

C9_Witness ==
    /\ b_pc = "permuted"
    /\ Len(b_raw.explicit_annotations) = 3
    /\ NoDuplicates(b_raw.explicit_annotations)
    /\ b_perm = <<3, 1, 2>>
    /\ b_out.ok
    /\ b_raw.explicit_annotations[1] = ExplicitAnnotation(RefModuleAnn, SN("", "A"), 7)
    /\ b_raw.explicit_annotations[2].refr = RefField("Y", "z")
    /\ b_out.module0.annotations = Ann(SN("", "A"), 7)

====
